---------------------------- MODULE Spec2Model ----------------------------
(***************************************************************************)
(* State-machine model of ifm3d_ros::CameraNodelet                         *)
(* (src/ifm3d_ros_driver/src/camera_nodelet.cpp).                          *)
(*                                                                         *)
(* One acquisition thread executes Run() (with its helpers InitStructures  *)
(* and AcquireFrame); the service handlers Dump, Config, Trigger, SoftOff  *)
(* and SoftOn execute on dispatcher threads.  All of them use the one      *)
(* std::mutex mutex_.  The device/session library (ifm3d) and the ROS      *)
(* transport are the environment: every call into them ends in one of the  *)
(* outcomes the surrounding code distinguishes.                            *)
(***************************************************************************)
EXTENDS Integers, Sequences, FiniteSets, TLC

(***************************************************************************)
(* Bounds of the model.                                                    *)
(***************************************************************************)
\* Number of dispatcher threads that may execute a service handler.
NumHandlers == 2
\* The clock reading ros::Time::now() - last_frame is followed up to here.
MaxElapsed == 3

Handlers == 1..NumHandlers

(***************************************************************************)
(* Schema-mask bits of the ifm3d library, as tested in Run().              *)
(***************************************************************************)
IMG_RDIS == 1
IMG_AMP == 2
IMG_RAMP == 4
IMG_CART == 8
IMG_UVEC == 16
IMG_GRAY == 64
IMG_DIS_NOISE == 2048

\* Width of std::uint16_t (schema_mask_).
UInt16 == 65536

(***************************************************************************)
(* Parameter-server configuration read by onInit().  The times are in      *)
(* abstract units; what matters is that the three regimes differ.          *)
(***************************************************************************)
Param_timeout_millis == 3
Param_timeout_tolerance_secs == 2
Param_soft_on_timeout_millis == 2
Param_soft_on_timeout_tolerance_secs == 1
Param_soft_off_timeout_millis == 4
Param_soft_off_timeout_tolerance_secs == 3
\* Values of the int parameter "schema_mask" (the last one exceeds 16 bits).
SchemaMaskParams == {IMG_RDIS + IMG_CART,
                     IMG_AMP + IMG_RAMP + IMG_UVEC + IMG_GRAY + IMG_DIS_NOISE,
                     UInt16 + IMG_RDIS + IMG_CART}

\* An empty std::shared_ptr<ifm3d::FrameGrabber>.
NullFg == -1

\* Bitwise AND of two naturals (operator & on std::uint16_t).
RECURSIVE BitAnd(_, _)
BitAnd(a, b) ==
    IF a = 0 \/ b = 0 THEN 0
    ELSE (a % 2) * (b % 2) + 2 * BitAnd(a \div 2, b \div 2)

VARIABLES
    rpc,            \* position of the acquisition thread in Run()
    site,           \* call site of the running InitStructures: boot, recover,
                    \* full ("none": InitStructures is not running)
    init_mask,      \* argument mask of the running InitStructures
    retval,         \* local retval of InitStructures
    mutex,          \* owner of mutex_: Free, ByRun or ByHandler(h)
    cam_, fg_, im_, \* the session triple; fg_ is NullFg or the mask it was built with
    schema_mask_,
    timeout_millis_,
    timeout_tolerance_secs_,
    assume_sw_triggered_,
    ok,             \* ros::ok()
    got_uvec,       \* local of Run()
    since_last_frame, \* ros::Time::now() - last_frame
    rgb_img,        \* local rgb_img of Run(): TRUE iff height*width > 0
    stage,          \* index of the next publish statement of the streaming cycle
    pubs,           \* topics published so far in the current loop iteration
    uvec_count,     \* number of publishes on unit_vectors so far
    full_schema_ok, \* an InitStructures(schema_mask_) has returned true
    hpc, hkind, hres, \* service handlers: position, service, response
    aborted,        \* the process was killed by a fault (null dereference)
    capture_time,   \* im_->TimeStamp() of the current frame, relative to
                    \* ros::Time::now() at the time the header is built
    head_stamp,     \* head.stamp, from the header step to the next lock
    optical_stamp,  \* optical_head.stamp, likewise
    uvec_msg,       \* local uvec_msg of the unit-vector branch: how the
                    \* conversion of im_->UnitVectors() ended
    pulled,         \* number of locals the pull of the current loop
                    \* iteration has assigned
    retained,       \* the image locals and extrinsics of Run() hold the
                    \* data of an earlier loop iteration
    conv_in,        \* argument of a conversion function
    conv_out        \* what the conversion function returned

runVars == <<rpc, site, init_mask, retval, got_uvec, since_last_frame, rgb_img,
             stage, pubs, uvec_count, full_schema_ok>>
tripleVars == <<cam_, fg_, im_>>
policyVars == <<timeout_millis_, timeout_tolerance_secs_, assume_sw_triggered_>>
handlerVars == <<hpc, hkind, hres>>
frameVars == <<capture_time, head_stamp, optical_stamp, uvec_msg, pulled,
               retained>>
convVars == <<conv_in, conv_out>>
vars == <<runVars, tripleVars, policyVars, handlerVars, mutex, schema_mask_, ok,
          aborted, frameVars, convVars>>

Services == {"Dump", "Config", "Trigger", "SoftOff", "SoftOn"}

\* Parameter "frame_latency_thresh" (seconds).
Param_frame_latency_thresh == 1

\* By how much the device clock can be behind (< 0) or ahead of (> 0) the
\* local clock.
MaxSkew == 2
DeviceSkews == {-MaxSkew, 0, MaxSkew}

\* A header stamp: not built yet, the device's capture time (relative to
\* the local clock), or ros::Time::now().
NoStamp == <<"none">>
DeviceTime(d) == <<"device", d>>
LocalTime == <<"local">>

\* The nine assignments of the try block of the pull in Run(),
\* rgb_img = im_->JPEGImage() last.
NumAccessors == 9

\* The fields of ifm3d_ros_msgs::Extrinsics filled from the vector, and the
\* lengths im_->Extrinsics() can deliver.
NumExtrinsics == 6
MaxExtrinsicsLen == 7
ExtrinsicsLens == 0..MaxExtrinsicsLen

\* No conversion has been asked for / has returned.
NoImage == [fn |-> "none"]
NoRecord == [path |-> "none"]

\* Owners of mutex_.
Free == <<"free">>
ByRun == <<"run">>
ByHandler(h) == <<"handler", h>>

\* The acquisition thread is at position p (and the process is alive).
At(p) == ~aborted /\ rpc = p
\* Handler thread h is at position p (and the process is alive).
HAt(h, p) == ~aborted /\ hpc[h] = p

\* Texts of a response: a fixed text, ex.what() of a caught exception, or
\* the JSON fragment {"ports":{"port<n>": {"state": <st>}}}.
Text(t) == <<"text", t>>
What == <<"what">>
PortStateJson(n, st) == <<"json", n, st>>

\* A response nobody has filled yet.
NoRes == [status |-> 0, msg |-> Text(""), ret |-> "none", outcome |-> "none",
          code |-> 0, applied |-> Text("")]

(***************************************************************************)
(* State after onInit(): parameters read, members default constructed,     *)
(* the one-shot timer about to call Run().                                 *)
(***************************************************************************)
NodeletInit ==
    /\ rpc = "boot_test"
    /\ site = "none"
    /\ init_mask = 0
    /\ retval = FALSE
    /\ mutex = Free
    /\ cam_ = FALSE /\ fg_ = NullFg /\ im_ = FALSE
    /\ \E p \in SchemaMaskParams : schema_mask_ = p % UInt16
    /\ timeout_millis_ = Param_timeout_millis
    /\ timeout_tolerance_secs_ = Param_timeout_tolerance_secs
    /\ assume_sw_triggered_ \in BOOLEAN
    /\ ok = TRUE
    /\ got_uvec = FALSE
    /\ since_last_frame = 0
    /\ rgb_img = FALSE
    /\ stage = 1
    /\ pubs = <<>>
    /\ uvec_count = 0
    /\ full_schema_ok = FALSE
    /\ hpc = [h \in Handlers |-> "idle"]
    /\ hkind = [h \in Handlers |-> "none"]
    /\ hres = [h \in Handlers |-> NoRes]
    /\ aborted = FALSE
    /\ capture_time = 0
    /\ head_stamp = NoStamp
    /\ optical_stamp = NoStamp
    /\ uvec_msg = "none"
    /\ pulled = 0
    /\ retained = FALSE

Init ==
    /\ NodeletInit
    /\ conv_in = NoImage
    /\ conv_out = NoRecord

(***************************************************************************)
(* InitStructures(mask, pcic_port)                                         *)
(***************************************************************************)
\* Run() calls InitStructures(m, pcic_port_) from call site s.
CallInit(s, m) ==
    /\ rpc' = "init_lock"
    /\ site' = s
    /\ init_mask' = m
    /\ UNCHANGED <<frameVars, convVars>>

\* std::lock_guard<std::mutex> lock(mutex_); bool retval = false;
InitLock ==
    /\ At("init_lock")
    /\ mutex = Free
    /\ mutex' = ByRun
    /\ retval' = FALSE
    /\ rpc' = "init_dtors"
    /\ UNCHANGED <<site, init_mask, got_uvec, since_last_frame, rgb_img, stage,
                   pubs, uvec_count, full_schema_ok>>
    /\ UNCHANGED <<tripleVars, policyVars, handlerVars, schema_mask_, ok, aborted>>
    /\ UNCHANGED <<frameVars, convVars>>

\* im_.reset(); fg_.reset(); cam_.reset();
InitDtors ==
    /\ At("init_dtors")
    /\ im_' = FALSE /\ fg_' = NullFg /\ cam_' = FALSE
    /\ rpc' = "init_cam"
    /\ UNCHANGED <<site, init_mask, retval, got_uvec, since_last_frame, rgb_img,
                   stage, pubs, uvec_count, full_schema_ok>>
    /\ UNCHANGED <<policyVars, handlerVars, mutex, schema_mask_, ok, aborted>>
    /\ UNCHANGED <<frameVars, convVars>>

\* cam_ = ifm3d::CameraBase::MakeShared(...), or it raises ifm3d::error_t.
InitCam ==
    /\ At("init_cam")
    /\ \/ cam_' = TRUE /\ rpc' = "init_fg"
       \/ cam_' = cam_ /\ rpc' = "init_catch"
    /\ UNCHANGED <<site, init_mask, retval, got_uvec, since_last_frame, rgb_img,
                   stage, pubs, uvec_count, full_schema_ok>>
    /\ UNCHANGED <<fg_, im_, policyVars, handlerVars, mutex, schema_mask_, ok,
                   aborted>>
    /\ UNCHANGED <<frameVars, convVars>>

\* fg_ = std::make_shared<ifm3d::FrameGrabber>(cam_, mask, pcic_port_), or it
\* raises ifm3d::error_t.
InitFg ==
    /\ At("init_fg")
    /\ \/ fg_' = init_mask /\ rpc' = "init_im"
       \/ fg_' = fg_ /\ rpc' = "init_catch"
    /\ UNCHANGED <<site, init_mask, retval, got_uvec, since_last_frame, rgb_img,
                   stage, pubs, uvec_count, full_schema_ok>>
    /\ UNCHANGED <<cam_, im_, policyVars, handlerVars, mutex, schema_mask_, ok,
                   aborted>>
    /\ UNCHANGED <<frameVars, convVars>>

\* im_ = std::make_shared<ifm3d::StlImageBuffer>(); retval = true; or the
\* construction raises ifm3d::error_t.
InitIm ==
    /\ At("init_im")
    /\ \/ im_' = TRUE /\ retval' = TRUE /\ rpc' = "init_ret"
       \/ im_' = im_ /\ retval' = retval /\ rpc' = "init_catch"
    /\ UNCHANGED <<site, init_mask, got_uvec, since_last_frame, rgb_img, stage,
                   pubs, uvec_count, full_schema_ok>>
    /\ UNCHANGED <<cam_, fg_, policyVars, handlerVars, mutex, schema_mask_, ok,
                   aborted>>
    /\ UNCHANGED <<frameVars, convVars>>

\* Mutant of InitCatch: the catch clause forgets the three resets.
InitCatch_NoRollback ==
    /\ At("init_catch")
    /\ retval' = FALSE
    /\ rpc' = "init_ret"
    /\ UNCHANGED <<site, init_mask, got_uvec, since_last_frame, rgb_img, stage,
                   pubs, uvec_count, full_schema_ok>>
    /\ UNCHANGED <<tripleVars, policyVars, handlerVars, mutex, schema_mask_, ok,
                   aborted>>
    /\ UNCHANGED <<frameVars, convVars>>

\* catch (const ifm3d::error_t&): reset all three, retval = false.
InitCatch ==
    /\ At("init_catch")
    /\ im_' = FALSE /\ fg_' = NullFg /\ cam_' = FALSE
    /\ retval' = FALSE
    /\ rpc' = "init_ret"
    /\ UNCHANGED <<site, init_mask, got_uvec, since_last_frame, rgb_img, stage,
                   pubs, uvec_count, full_schema_ok>>
    /\ UNCHANGED <<policyVars, handlerVars, mutex, schema_mask_, ok, aborted>>
    /\ UNCHANGED <<frameVars, convVars>>

\* Where Run() continues after InitStructures returned r at call site s.
AfterInit(s, r) ==
    CASE s = "boot"    -> IF r THEN "locals_init" ELSE "boot_sleep"
      [] s = "recover" -> IF r THEN "recover_done" ELSE "recover_sleep"
      [] s = "full"    -> IF r THEN "loop_test" ELSE "full_sleep"

\* Variant: InitStructures returns with mutex_ still taken.
InitReturn_KeepsLock ==
    /\ At("init_ret")
    /\ mutex' = mutex
    /\ rpc' = AfterInit(site, retval)
    /\ full_schema_ok' =
         (full_schema_ok \/ (retval /\ (site = "full" \/ (site = "recover" /\ got_uvec))))
    /\ site' = "none"
    /\ init_mask' = 0
    /\ UNCHANGED <<retval, got_uvec, since_last_frame, rgb_img, stage, pubs,
                   uvec_count>>
    /\ UNCHANGED <<tripleVars, policyVars, handlerVars, schema_mask_, ok, aborted>>
    /\ UNCHANGED <<frameVars, convVars>>

\* return retval; the lock_guard releases mutex_, the frame of
\* InitStructures is gone and the caller's loop condition is evaluated.
InitReturn ==
    /\ At("init_ret")
    /\ mutex' = Free
    /\ rpc' = AfterInit(site, retval)
    /\ full_schema_ok' =
         (full_schema_ok \/ (retval /\ (site = "full" \/ (site = "recover" /\ got_uvec))))
    /\ site' = "none"
    /\ init_mask' = 0
    /\ UNCHANGED <<retval, got_uvec, since_last_frame, rgb_img, stage, pubs,
                   uvec_count>>
    /\ UNCHANGED <<tripleVars, policyVars, handlerVars, schema_mask_, ok, aborted>>
    /\ UNCHANGED <<frameVars, convVars>>

(***************************************************************************)
(* Run(): bootstrap                                                        *)
(***************************************************************************)
\* while (ros::ok() && !InitStructures(ifm3d::IMG_UVEC, pcic_port_))
RunBootTest ==
    /\ At("boot_test")
    /\ IF ok THEN CallInit("boot", IMG_UVEC)
             ELSE rpc' = "locals_init" /\ UNCHANGED <<site, init_mask>>
    /\ UNCHANGED <<retval, got_uvec, since_last_frame, rgb_img, stage, pubs,
                   uvec_count, full_schema_ok>>
    /\ UNCHANGED <<tripleVars, policyVars, handlerVars, mutex, schema_mask_, ok,
                   aborted>>
    /\ UNCHANGED <<frameVars, convVars>>

\* ros::Duration(1.0).sleep() of the bootstrap loop.
RunBootSleep ==
    /\ At("boot_sleep")
    /\ rpc' = "boot_test"
    /\ UNCHANGED <<site, init_mask, retval, got_uvec, since_last_frame, rgb_img,
                   stage, pubs, uvec_count, full_schema_ok>>
    /\ UNCHANGED <<tripleVars, policyVars, handlerVars, mutex, schema_mask_, ok,
                   aborted>>
    /\ UNCHANGED <<frameVars, convVars>>

\* The locals of Run(): empty images, last_frame = now, got_uvec = false.
RunLocalsInit ==
    /\ At("locals_init")
    /\ rgb_img' = FALSE
    /\ since_last_frame' = 0
    /\ got_uvec' = FALSE
    /\ rpc' = "loop_test"
    /\ UNCHANGED frameVars
    /\ UNCHANGED <<site, init_mask, retval, stage, pubs, uvec_count, full_schema_ok>>
    /\ UNCHANGED <<tripleVars, policyVars, handlerVars, mutex, schema_mask_, ok,
                   aborted>>
    /\ UNCHANGED convVars

(***************************************************************************)
(* AcquireFrame()                                                          *)
(***************************************************************************)
\* Mutant of AcqLock: AcquireFrame does not take mutex_.
AcqLock_NoMutex ==
    /\ At("acq_lock")
    /\ rpc' = "acq_wait"
    /\ UNCHANGED <<site, init_mask, retval, got_uvec, since_last_frame, rgb_img,
                   stage, pubs, uvec_count, full_schema_ok>>
    /\ UNCHANGED <<tripleVars, policyVars, handlerVars, mutex, schema_mask_, ok,
                   aborted>>
    /\ UNCHANGED <<frameVars, convVars>>

\* std::lock_guard<std::mutex> lock(mutex_); bool retval = false;
AcqLock ==
    /\ At("acq_lock")
    /\ mutex = Free
    /\ mutex' = ByRun
    /\ rpc' = "acq_wait"
    /\ UNCHANGED <<site, init_mask, retval, got_uvec, since_last_frame, rgb_img,
                   stage, pubs, uvec_count, full_schema_ok>>
    /\ UNCHANGED <<tripleVars, policyVars, handlerVars, schema_mask_, ok, aborted>>
    /\ UNCHANGED <<frameVars, convVars>>

\* retval = fg_->WaitForFrame(im_.get(), timeout_millis_): a frame, a
\* timeout (false) or ifm3d::error_t (caught, false); then return retval.
\* Calling through an empty fg_ is a fault.
AcqWait ==
    /\ At("acq_wait")
    /\ mutex' = Free
    /\ IF fg_ = NullFg
         THEN aborted' = TRUE /\ rpc' = rpc
         ELSE /\ aborted' = aborted
              /\ \/ rpc' = "frame_ok"
                 \/ rpc' = "acq_failed"
    /\ UNCHANGED <<site, init_mask, retval, got_uvec, since_last_frame, rgb_img,
                   stage, pubs, uvec_count, full_schema_ok>>
    /\ UNCHANGED <<tripleVars, policyVars, handlerVars, schema_mask_, ok>>
    /\ UNCHANGED <<frameVars, convVars>>

(***************************************************************************)
(* Run(): the acquisition loop                                             *)
(***************************************************************************)
\* while (ros::ok()) { if (!this->AcquireFrame()) ...
RunLoopTest ==
    /\ At("loop_test")
    /\ pubs' = <<>>
    /\ capture_time' = 0
    /\ head_stamp' = NoStamp
    /\ optical_stamp' = NoStamp
    /\ uvec_msg' = "none"
    /\ pulled' = 0
    /\ retained' = (retained \/ pulled = NumAccessors)
    /\ rpc' = IF ok THEN "acq_lock" ELSE "done"
    /\ UNCHANGED <<site, init_mask, retval, got_uvec, since_last_frame, rgb_img,
                   stage, uvec_count, full_schema_ok>>
    /\ UNCHANGED <<tripleVars, policyVars, handlerVars, mutex, schema_mask_, ok,
                   aborted>>
    /\ UNCHANGED convVars

\* AcquireFrame() returned false: warn, or sleep 1 ms when software
\* triggering is assumed.
RunAcqFailed ==
    /\ At("acq_failed")
    /\ \/ ~assume_sw_triggered_ /\ rpc' = "stale_check"
       \/ assume_sw_triggered_ /\ rpc' = "stale_check"
    /\ UNCHANGED <<site, init_mask, retval, got_uvec, since_last_frame, rgb_img,
                   stage, pubs, uvec_count, full_schema_ok>>
    /\ UNCHANGED <<tripleVars, policyVars, handlerVars, mutex, schema_mask_, ok,
                   aborted>>
    /\ UNCHANGED <<frameVars, convVars>>

\* Mutant of RecoveryMask: the recovery always asks for the full schema.
RecoveryMask_AlwaysFull(g, m) == m

\* got_uvec ? this->schema_mask_ : ifm3d::IMG_UVEC
RecoveryMask(g, m) == IF g THEN m ELSE IMG_UVEC

\* if ((ros::Time::now() - last_frame).toSec() > timeout_tolerance_secs_)
\* restart the frame grabber, else continue.
RunStaleCheck ==
    /\ At("stale_check")
    /\ IF since_last_frame > timeout_tolerance_secs_
         THEN CallInit("recover", RecoveryMask(got_uvec, schema_mask_))
         ELSE rpc' = "loop_test" /\ UNCHANGED <<site, init_mask>>
    /\ UNCHANGED <<retval, got_uvec, since_last_frame, rgb_img, stage, pubs,
                   uvec_count, full_schema_ok>>
    /\ UNCHANGED <<tripleVars, policyVars, handlerVars, mutex, schema_mask_, ok,
                   aborted>>
    /\ UNCHANGED <<frameVars, convVars>>

\* ros::Duration(1.0).sleep() of the recovery loop, then its condition again.
RunRecoverSleep ==
    /\ At("recover_sleep")
    /\ CallInit("recover", RecoveryMask(got_uvec, schema_mask_))
    /\ UNCHANGED <<retval, got_uvec, since_last_frame, rgb_img, stage, pubs,
                   uvec_count, full_schema_ok>>
    /\ UNCHANGED <<tripleVars, policyVars, handlerVars, mutex, schema_mask_, ok,
                   aborted>>

\* last_frame = ros::Time::now(); continue;
RunRecoverDone ==
    /\ At("recover_done")
    /\ since_last_frame' = 0
    /\ rpc' = "loop_test"
    /\ UNCHANGED <<site, init_mask, retval, got_uvec, rgb_img, stage, pubs,
                   uvec_count, full_schema_ok>>
    /\ UNCHANGED <<tripleVars, policyVars, handlerVars, mutex, schema_mask_, ok,
                   aborted>>
    /\ UNCHANGED <<frameVars, convVars>>

\* AcquireFrame() returned true: last_frame = ros::Time::now();
RunFrameOk ==
    /\ At("frame_ok")
    /\ since_last_frame' = 0
    /\ rpc' = "header"
    /\ UNCHANGED <<site, init_mask, retval, got_uvec, rgb_img, stage, pubs,
                   uvec_count, full_schema_ok>>
    /\ UNCHANGED <<tripleVars, policyVars, handlerVars, mutex, schema_mask_, ok,
                   aborted>>
    /\ UNCHANGED <<frameVars, convVars>>

\* The two headers are built from im_->TimeStamp(), which is called outside
\* any try block: a failure of the accessor leaves Run().  Then if (!got_uvec).
\* head.stamp for a frame captured at device time t (relative to now):
\* if ((ros::Time::now() - head.stamp) > ros::Duration(frame_latency_thresh_))
\*   head.stamp = ros::Time::now();
HeadStamp(t) ==
    IF 0 - t > Param_frame_latency_thresh THEN LocalTime ELSE DeviceTime(t)

RunHeader ==
    /\ At("header")
    /\ \/ /\ \E t \in DeviceSkews :
               /\ capture_time' = t
               /\ head_stamp' = HeadStamp(t)
               /\ optical_stamp' = HeadStamp(t)
          /\ rpc' = (IF got_uvec THEN "pull_lock" ELSE "uvec_lock")
       \/ /\ rpc' = "threw"
          /\ UNCHANGED <<capture_time, head_stamp, optical_stamp>>
    /\ UNCHANGED <<uvec_msg, pulled, retained>>
    /\ UNCHANGED <<site, init_mask, retval, got_uvec, since_last_frame, rgb_img,
                   stage, pubs, uvec_count, full_schema_ok>>
    /\ UNCHANGED <<tripleVars, policyVars, handlerVars, mutex, schema_mask_, ok,
                   aborted>>
    /\ UNCHANGED convVars

\* From here on head and optical_head are only copied into the messages
\* that are published; the model does not follow the stamps further.
HeadersHandedOver ==
    /\ capture_time' = 0
    /\ head_stamp' = NoStamp
    /\ optical_stamp' = NoStamp

\* lock.lock(); in the unit-vector branch.
UvecLock ==
    /\ At("uvec_lock")
    /\ mutex = Free
    /\ mutex' = ByRun
    /\ rpc' = "uvec_conv"
    /\ HeadersHandedOver
    /\ UNCHANGED <<uvec_msg, pulled, retained>>
    /\ UNCHANGED <<site, init_mask, retval, got_uvec, since_last_frame, rgb_img,
                   stage, pubs, uvec_count, full_schema_ok>>
    /\ UNCHANGED <<tripleVars, policyVars, handlerVars, schema_mask_, ok, aborted>>
    /\ UNCHANGED convVars

\* How ifm3d_to_ros_image(im_->UnitVectors(), ...) can return: with the
\* payload, with an empty record for an empty image, with an empty record
\* for a rejected pixel format.
UvecRecords == {"converted", "empty", "format_error"}

\* Variant: the lock is kept after the unit-vector conversion.
UvecConv_KeepsLock ==
    /\ At("uvec_conv")
    /\ mutex' = mutex
    /\ \/ rpc' = "uvec_pub" /\ uvec_msg' \in UvecRecords
       \/ rpc' = "threw" /\ uvec_msg' = uvec_msg
    /\ UNCHANGED <<site, init_mask, retval, got_uvec, since_last_frame, rgb_img,
                   stage, pubs, uvec_count, full_schema_ok>>
    /\ UNCHANGED <<tripleVars, policyVars, handlerVars, schema_mask_, ok, aborted>>
    /\ UNCHANGED <<capture_time, head_stamp, optical_stamp, pulled, retained>>
    /\ UNCHANGED convVars

\* uvec_msg = ifm3d_to_ros_image(im_->UnitVectors(), ...); lock.unlock();
\* A failure of the accessor or of the conversion is not caught: the
\* unique_lock releases the mutex while the exception leaves Run().
UvecConv ==
    /\ At("uvec_conv")
    /\ mutex' = Free
    /\ \/ rpc' = "uvec_pub" /\ uvec_msg' \in UvecRecords
       \/ rpc' = "threw" /\ uvec_msg' = uvec_msg
    /\ UNCHANGED <<site, init_mask, retval, got_uvec, since_last_frame, rgb_img,
                   stage, pubs, uvec_count, full_schema_ok>>
    /\ UNCHANGED <<tripleVars, policyVars, handlerVars, schema_mask_, ok, aborted>>
    /\ UNCHANGED <<capture_time, head_stamp, optical_stamp, pulled, retained>>
    /\ UNCHANGED convVars

\* Mutant of RunUvecPub: got_uvec is not set.
RunUvecPub_NoLatch ==
    /\ At("uvec_pub")
    /\ pubs' = Append(pubs, "unit_vectors")
    /\ uvec_count' = IF uvec_count < 2 THEN uvec_count + 1 ELSE uvec_count
    /\ CallInit("full", schema_mask_)
    /\ UNCHANGED <<retval, got_uvec, since_last_frame, rgb_img, stage,
                   full_schema_ok>>
    /\ UNCHANGED <<tripleVars, policyVars, handlerVars, mutex, schema_mask_, ok,
                   aborted>>
    /\ UNCHANGED <<frameVars, convVars>>

\* Mutant of RunUvecPub: no reinitialization and no continue, the iteration
\* goes on into the streaming branch.
RunUvecPub_FallThrough ==
    /\ At("uvec_pub")
    /\ pubs' = Append(pubs, "unit_vectors")
    /\ uvec_count' = IF uvec_count < 2 THEN uvec_count + 1 ELSE uvec_count
    /\ got_uvec' = TRUE
    /\ rpc' = "pull_lock"
    /\ UNCHANGED <<site, init_mask, retval, since_last_frame, rgb_img, stage,
                   full_schema_ok>>
    /\ UNCHANGED <<tripleVars, policyVars, handlerVars, mutex, schema_mask_, ok,
                   aborted>>
    /\ UNCHANGED <<frameVars, convVars>>

\* uvec_pub_.publish(uvec_msg); got_uvec = true;
\* while (!InitStructures(schema_mask_, pcic_port_))
RunUvecPub ==
    /\ At("uvec_pub")
    /\ pubs' = Append(pubs, "unit_vectors")
    /\ uvec_count' = IF uvec_count < 2 THEN uvec_count + 1 ELSE uvec_count
    /\ got_uvec' = TRUE
    /\ CallInit("full", schema_mask_)
    /\ UNCHANGED <<retval, since_last_frame, rgb_img, stage, full_schema_ok>>
    /\ UNCHANGED <<tripleVars, policyVars, handlerVars, mutex, schema_mask_, ok,
                   aborted>>
    /\ UNCHANGED <<frameVars, convVars>>

\* ros::Duration(1.0).sleep() of the switch to the full schema, then again.
RunFullSleep ==
    /\ At("full_sleep")
    /\ CallInit("full", schema_mask_)
    /\ UNCHANGED <<retval, got_uvec, since_last_frame, rgb_img, stage, pubs,
                   uvec_count, full_schema_ok>>
    /\ UNCHANGED <<tripleVars, policyVars, handlerVars, mutex, schema_mask_, ok,
                   aborted>>

(***************************************************************************)
(* Run(): the streaming cycle                                              *)
(***************************************************************************)
\* lock.lock(); before the sub-images are pulled out of the frame buffer.
PullLock ==
    /\ At("pull_lock")
    /\ mutex = Free
    /\ mutex' = ByRun
    /\ rpc' = "pull"
    /\ HeadersHandedOver
    /\ UNCHANGED <<uvec_msg, pulled, retained>>
    /\ UNCHANGED <<site, init_mask, retval, got_uvec, since_last_frame, rgb_img,
                   stage, pubs, uvec_count, full_schema_ok>>
    /\ UNCHANGED <<tripleVars, policyVars, handlerVars, schema_mask_, ok, aborted>>
    /\ UNCHANGED convVars


\* extrinsics_msg after the six assignments from extrinsics.at(0..5), of
\* which the first out-of-range one ends the try block: field i holds the
\* value read from the vector or the default of the message type.
ExtrinsicsMsg(len) ==
    [i \in 1..NumExtrinsics |-> IF i <= len THEN "read" ELSE "default"]

\* Where the try block of the pull can end: the first accessor raises, only
\* the last one (JPEGImage) raises, none raises.
PullStops == {0, NumAccessors - 1, NumAccessors}

\* The position of the assignment that fills the local a channel is
\* published from: xyz_img, confidence_img, distance_img,
\* distance_noise_img, amplitude_img, raw_amplitude_img, gray_img,
\* extrinsics, rgb_img.
AccessorIndex(ch) ==
    CASE ch = "cloud"          -> 1
      [] ch = "confidence"     -> 2
      [] ch = "distance"       -> 3
      [] ch = "distance_noise" -> 4
      [] ch = "amplitude"      -> 5
      [] ch = "raw_amplitude"  -> 6
      [] ch = "gray_image"     -> 7
      [] ch = "extrinsics"     -> 8
      [] ch = "rgb_image"      -> 9

\* Variant: the lock is kept after the pull.
Pull_KeepsLock ==
    /\ At("pull")
    /\ \E n \in PullStops :
         /\ IF n = NumAccessors THEN rgb_img' \in BOOLEAN ELSE rgb_img' = rgb_img
         /\ pulled' = n
    /\ UNCHANGED <<capture_time, head_stamp, optical_stamp, uvec_msg, retained>>
    /\ mutex' = mutex
    /\ stage' = 1
    /\ rpc' = "publish"
    /\ UNCHANGED <<site, init_mask, retval, got_uvec, since_last_frame, pubs,
                   uvec_count, full_schema_ok>>
    /\ UNCHANGED <<tripleVars, policyVars, handlerVars, schema_mask_, ok, aborted>>
    /\ UNCHANGED convVars

\* try { xyz_img = im_->XYZImage(); ... rgb_img = im_->JPEGImage(); }
\* catch (...) { warn }  lock.unlock();
\* n assignments complete before an accessor raises (NumAccessors: none
\* raises); an assignment that was not reached leaves its local as it was.
Pull ==
    /\ At("pull")
    /\ \E n \in PullStops :
         /\ IF n = NumAccessors THEN rgb_img' \in BOOLEAN ELSE rgb_img' = rgb_img
         /\ pulled' = n
    /\ UNCHANGED <<capture_time, head_stamp, optical_stamp, uvec_msg, retained>>
    /\ mutex' = Free
    /\ stage' = 1
    /\ rpc' = "publish"
    /\ UNCHANGED <<site, init_mask, retval, got_uvec, since_last_frame, pubs,
                   uvec_count, full_schema_ok>>
    /\ UNCHANGED <<tripleVars, policyVars, handlerVars, schema_mask_, ok, aborted>>
    /\ UNCHANGED convVars

\* Mutant of PubOrder: the RGB image is published before the gated channels.
PubOrder_RgbFirst ==
    <<"confidence", "rgb_image", "cloud", "distance", "distance_noise", "amplitude",
      "raw_amplitude", "gray_image", "extrinsics">>

\* The publish statements of one streaming cycle, in program order.
PubOrder ==
    <<"confidence", "cloud", "distance", "distance_noise", "amplitude",
      "raw_amplitude", "gray_image", "rgb_image", "extrinsics">>

\* The schema bit that guards the publish of a channel.
ChannelBit(ch) ==
    CASE ch = "cloud"          -> IMG_CART
      [] ch = "distance"       -> IMG_RDIS
      [] ch = "distance_noise" -> IMG_DIS_NOISE
      [] ch = "amplitude"      -> IMG_AMP
      [] ch = "raw_amplitude"  -> IMG_RAMP
      [] ch = "gray_image"     -> IMG_GRAY

MaskGated == {"cloud", "distance", "distance_noise", "amplitude", "raw_amplitude",
              "gray_image"}

\* Mutant of ShouldPublish: the amplitude image is published like the
\* confidence image, without a test of the mask.
ShouldPublish_AmplitudeUngated(ch, mask, rgb) ==
    CASE ch \in {"confidence", "amplitude"} -> TRUE
      [] ch \in MaskGated \ {"amplitude"} -> BitAnd(mask, ChannelBit(ch)) = ChannelBit(ch)
      [] ch = "rgb_image"  -> rgb
      [] ch = "extrinsics" -> TRUE

\* The condition in front of the publish statement of channel ch.
ShouldPublish(ch, mask, rgb) ==
    CASE ch = "confidence" -> TRUE
      [] ch \in MaskGated  -> BitAnd(mask, ChannelBit(ch)) = ChannelBit(ch)
      [] ch = "rgb_image"  -> rgb
      [] ch = "extrinsics" -> TRUE

\* Channels converted by ifm3d_to_ros_image, whose call of
\* sensor_msgs::image_encodings::bitDepth raises std::runtime_error for the
\* encodings "32UC1" and "64UC1"; nothing in Run() catches it.
PlanarChannels == {"confidence", "distance", "distance_noise", "amplitude",
                   "raw_amplitude", "gray_image"}

\* One publish statement of the streaming cycle (with its if).
RunPublish ==
    /\ At("publish")
    /\ LET ch == PubOrder[stage]
           advance == /\ stage' = IF stage = Len(PubOrder) THEN 1 ELSE stage + 1
                      /\ rpc' = IF stage = Len(PubOrder) THEN "loop_test" ELSE "publish"
       IN  \/ /\ ShouldPublish(ch, schema_mask_, rgb_img)
              /\ pubs' = Append(pubs, ch)
              /\ advance
           \/ /\ ~ShouldPublish(ch, schema_mask_, rgb_img)
              /\ pubs' = pubs
              /\ advance
           \/ /\ ShouldPublish(ch, schema_mask_, rgb_img)
              /\ ch \in PlanarChannels
              /\ pubs' = pubs /\ stage' = stage
              /\ rpc' = "threw"
    /\ UNCHANGED frameVars
    /\ UNCHANGED <<site, init_mask, retval, got_uvec, since_last_frame, rgb_img,
                   uvec_count, full_schema_ok>>
    /\ UNCHANGED <<tripleVars, policyVars, handlerVars, mutex, schema_mask_, ok,
                   aborted>>
    /\ UNCHANGED convVars

(***************************************************************************)
(* Service handlers                                                        *)
(***************************************************************************)
\* Codes carried by ifm3d::error_t (ex.code()).
DeviceErrCodes == {-100001}

\* How the try block of a handler can end: Dump and Config serialize and
\* parse JSON around the device call and distinguish three kinds of
\* exception; Trigger, SoftOff and SoftOn make a device call only.
Outcomes(k) ==
    IF k \in {"Dump", "Config"}
      THEN {"ok", "error_t", "std_exception", "unknown"}
      ELSE {"ok", "error_t"}

\* The data port of the device (parameter "pcic_port", cast to uint16).
Param_pcic_port == 50012

\* port_arg = static_cast<int>(pcic_port_) % 50010
PortArg == (Param_pcic_port % UInt16) % 50010

\* The device state a soft-off / soft-on asks for.
PortState(k) == IF k = "SoftOff" THEN "IDLE" ELSE "RUN"

\* The message a handler sets before its try block.
InitialMsg(k) ==
    CASE k = "Config"  -> Text("OK")
      [] k = "Trigger" -> Text("Software trigger is currently not implemented")
      [] OTHER         -> Text("")

\* The handler is entered: std::lock_guard<std::mutex> lock(mutex_);
\* res.status = 0; (and res.msg in Config and Trigger)
HandlerEnter(h) ==
    /\ HAt(h, "idle")
    /\ mutex = Free
    /\ mutex' = ByHandler(h)
    /\ hpc' = [hpc EXCEPT ![h] = "call"]
    /\ \E k \in Services :
         /\ hkind' = [hkind EXCEPT ![h] = k]
         /\ hres' = [hres EXCEPT ![h] = [NoRes EXCEPT !.msg = InitialMsg(k)]]
    /\ UNCHANGED <<runVars, tripleVars, policyVars, schema_mask_, ok, aborted>>
    /\ UNCHANGED <<frameVars, convVars>>

\* The pointer the handler dereferences: fg_ in Trigger, cam_ in the others.
PointerSet(k) == IF k = "Trigger" THEN fg_ # NullFg ELSE cam_

\* Variant: an unknown exception is reported like a std::exception.
Status_UnknownAsGeneric(k, o, c) ==
    CASE o = "ok"      -> 0
      [] o = "error_t" -> c
      [] OTHER         -> -1

\* res.status of service k when its try block ends with outcome o and
\* error code c.
Status(k, o, c) ==
    CASE o = "ok"            -> 0
      [] o = "error_t"       -> c
      [] o = "std_exception" -> -1
      [] o = "unknown"       -> -2

\* res.msg of service k when its try block ends with outcome o (Dump has
\* no message, Trigger never changes its message).
Msg(k, o) ==
    CASE k \in {"SoftOff", "SoftOn"} ->
           IF o = "ok" THEN PortStateJson(PortArg, PortState(k)) ELSE What
      [] k = "Config" ->
           CASE o = "ok"      -> InitialMsg(k)
             [] o = "unknown" -> Text("Unknown error in `Config'")
             [] OTHER         -> What
      [] OTHER -> InitialMsg(k)

\* Variant: every catch clause of ifm3d::error_t returns false.
Returned_FalseOnDeviceError(k, o) ==
    IF o = "error_t" THEN "false" ELSE "true"

\* What the handler of service k returns to the transport: SoftOff and
\* SoftOn return false from their catch clause.
Returned(k, o) ==
    IF o = "error_t" /\ k \in {"SoftOff", "SoftOn"} THEN "false" ELSE "true"

\* The JSON string SoftOff / SoftOn hand to cam_->FromJSONStr.
AppliedJson(k) ==
    IF k \in {"SoftOff", "SoftOn"} THEN PortStateJson(PortArg, PortState(k))
                                   ELSE Text("")

\* Variant: SoftOff makes the soft-off pair the active one.
PolicyAfter_PerMode(k) ==
    IF k = "SoftOff"
      THEN [millis |-> Param_soft_off_timeout_millis,
            tolerance |-> Param_soft_off_timeout_tolerance_secs]
      ELSE [millis |-> Param_soft_on_timeout_millis,
            tolerance |-> Param_soft_on_timeout_tolerance_secs]

\* The timeout pair SoftOff and SoftOn make the active one.
PolicyAfter(k) ==
    [millis |-> Param_soft_on_timeout_millis,
     tolerance |-> Param_soft_on_timeout_tolerance_secs]

\* The response of service k when its try block ends with outcome o and
\* error code c.
Response(k, o, c) ==
    [status |-> Status(k, o, c), msg |-> Msg(k, o), ret |-> Returned(k, o),
     outcome |-> o, code |-> IF o = "error_t" THEN c ELSE 0,
     applied |-> AppliedJson(k)]

\* The try block and the catch clauses of handler h.  SoftOff and SoftOn
\* both set the soft-on timeout pair when the device call succeeds.  A call
\* through an empty pointer is undefined: the process may be killed.
HandlerDevice(h) ==
    /\ HAt(h, "call")
    /\ \/ /\ \E o \in Outcomes(hkind[h]) : \E c \in DeviceErrCodes :
               /\ hres' = [hres EXCEPT ![h] = Response(hkind[h], o, c)]
               /\ IF o = "ok" /\ hkind[h] \in {"SoftOff", "SoftOn"}
                    THEN /\ assume_sw_triggered_' = FALSE
                         /\ timeout_millis_' = PolicyAfter(hkind[h]).millis
                         /\ timeout_tolerance_secs_' = PolicyAfter(hkind[h]).tolerance
                    ELSE UNCHANGED policyVars
          /\ hpc' = [hpc EXCEPT ![h] = "ret"]
          /\ aborted' = aborted
       \/ /\ ~PointerSet(hkind[h])
          /\ aborted' = TRUE
          /\ UNCHANGED <<hpc, hres, policyVars>>
    /\ UNCHANGED <<runVars, tripleVars, hkind, mutex, schema_mask_, ok>>
    /\ UNCHANGED <<frameVars, convVars>>

\* return: the lock_guard releases mutex_ and the response goes out.
HandlerReturn(h) ==
    /\ HAt(h, "ret")
    /\ mutex' = Free
    /\ hpc' = [hpc EXCEPT ![h] = "idle"]
    /\ hres' = [hres EXCEPT ![h] = NoRes]
    /\ hkind' = [hkind EXCEPT ![h] = "none"]
    /\ UNCHANGED <<runVars, tripleVars, policyVars, schema_mask_, ok, aborted>>
    /\ UNCHANGED <<frameVars, convVars>>

(***************************************************************************)
(* Environment                                                             *)
(***************************************************************************)
\* The process is asked to shut down: ros::ok() is false from now on.
Shutdown ==
    /\ ~aborted
    /\ ok
    /\ ok' = FALSE
    /\ UNCHANGED <<runVars, tripleVars, policyVars, handlerVars, mutex,
                   schema_mask_, aborted>>
    /\ UNCHANGED <<frameVars, convVars>>

\* Positions of Run() at which its local last_frame exists.
ClockRuns ==
    /\ rpc \notin {"boot_test", "boot_sleep", "locals_init", "done", "threw"}
    /\ site # "boot"

\* Wall-clock time passes.
Tick ==
    /\ ~aborted
    /\ ClockRuns
    /\ since_last_frame < MaxElapsed
    /\ since_last_frame' = since_last_frame + 1
    /\ UNCHANGED <<rpc, site, init_mask, retval, got_uvec, rgb_img, stage, pubs,
                   uvec_count, full_schema_ok>>
    /\ UNCHANGED <<tripleVars, policyVars, handlerVars, mutex, schema_mask_, ok,
                   aborted>>
    /\ UNCHANGED <<frameVars, convVars>>

(***************************************************************************)
(* Specifications                                                          *)
(***************************************************************************)
\* The steps of the acquisition thread.
RunNext ==
    \/ RunBootTest \/ RunBootSleep \/ RunLocalsInit
    \/ InitLock \/ InitDtors \/ InitCam \/ InitFg \/ InitIm \/ InitCatch \/ InitReturn
    \/ RunLoopTest \/ AcqLock \/ AcqWait \/ RunAcqFailed \/ RunStaleCheck
    \/ RunRecoverSleep \/ RunRecoverDone \/ RunFrameOk \/ RunHeader
    \/ UvecLock \/ UvecConv \/ RunUvecPub \/ RunFullSleep
    \/ PullLock \/ Pull \/ RunPublish

\* The steps of the handler threads.
HandlerNext ==
    \E h \in Handlers : HandlerEnter(h) \/ HandlerDevice(h) \/ HandlerReturn(h)

Next == RunNext \/ HandlerNext \/ Shutdown \/ Tick

Spec == Init /\ [][Next]_vars

\* The acquisition thread keeps running and gets the mutex when it is free
\* again and again; a handler that holds the mutex finishes its call.
FairSpec ==
    /\ Spec
    /\ SF_vars(RunNext)
    /\ \A h \in Handlers : WF_vars(HandlerDevice(h) \/ HandlerReturn(h))

(***************************************************************************)
(* The conversion functions and the extrinsics message                     *)
(***************************************************************************)
\* ifm3d::pixel_format
FORMAT_8U == 0
FORMAT_8S == 1
FORMAT_16U == 2
FORMAT_16S == 3
FORMAT_32U == 4
FORMAT_32S == 5
FORMAT_32F == 6
FORMAT_64U == 7
FORMAT_64F == 8
FORMAT_16U2 == 9
FORMAT_32F3 == 10

max_pixel_format == FORMAT_32F3

\* image_format_info, indexed from 1.
image_format_info ==
    <<"8UC1", "8SC1", "16UC1", "16SC1", "32UC1", "32SC1", "32FC1", "64UC1",
      "64FC1", "16UC2", "32FC3">>

\* sensor_msgs::image_encodings::bitDepth: the bits of one channel of the
\* encoding; it raises std::runtime_error for a name it does not know.
BitDepthThrows(enc) == enc \in {"32UC1", "64UC1"}
BitDepth(enc) ==
    CASE enc \in {"8UC1", "8SC1"} -> 8
      [] enc \in {"16UC1", "16SC1", "16UC2"} -> 16
      [] enc \in {"32SC1", "32FC1", "32FC3"} -> 32
      [] enc = "64FC1" -> 64

\* The sources handed to the conversions: pixel formats up to one code past
\* the table, widths and heights from 0.
MaxFormatCode == 11
MaxWidth == 2
MaxHeight == 2
Headers == {"head", "optical_head"}
Conversions == {"image", "compressed_image", "cloud"}

Images ==
    [fn : Conversions, header : Headers, format : 0..MaxFormatCode,
     width : 0..MaxWidth, height : 0..MaxHeight]

\* image.begin<std::uint8_t>() == image.end<std::uint8_t>()
IsEmpty(image) == image.width * image.height = 0

\* The exception left the function: there is no record.
Thrown == [path |-> "threw"]

\* sensor_msgs::Image ifm3d_to_ros_image(image, header, logger)
ifm3d_to_ros_image(image) ==
    LET format == image.format
        result == [path |-> "empty", header |-> image.header,
                   height |-> image.height, width |-> image.width,
                   encoding |-> "", step |-> 0, datalen |-> 0]
    IN  IF IsEmpty(image) THEN result
        ELSE IF format >= max_pixel_format
               THEN [result EXCEPT !.path = "format_error"]
        ELSE LET encoding == image_format_info[format + 1]
             IN  IF BitDepthThrows(encoding) THEN Thrown
                 ELSE LET step == (image.width * BitDepth(encoding)) \div 8
                      IN  [result EXCEPT
                             !.path = "converted",
                             !.encoding = IF encoding = "" THEN "8UC1"
                                                           ELSE encoding,
                             !.step = step,
                             !.datalen = step * image.height]

\* sensor_msgs::CompressedImage ifm3d_to_ros_compressed_image(image, header,
\* format, logger)
ifm3d_to_ros_compressed_image(image) ==
    LET result == [path |-> "converted", header |-> image.header,
                   format |-> "jpeg", datalen |-> 0]
    IN  IF image.format # FORMAT_8S /\ image.format # FORMAT_8U
          THEN [result EXCEPT !.path = "format_error"]
          ELSE [result EXCEPT !.datalen = image.width * image.height]

\* sensor_msgs::PointCloud2 ifm3d_to_ros_cloud(image, header, logger)
ifm3d_to_ros_cloud(image) ==
    LET result == [path |-> "empty", header |-> image.header,
                   height |-> image.height, width |-> image.width,
                   fields |-> <<>>, point_step |-> 0, row_step |-> 0,
                   is_dense |-> FALSE, datalen |-> 0]
    IN  IF IsEmpty(image) THEN result
        ELSE IF image.format # FORMAT_32F3 /\ image.format # FORMAT_32F
               THEN [result EXCEPT !.path = "format_error"]
        ELSE LET fields == <<[name |-> "x", offset |-> 0],
                             [name |-> "y", offset |-> 4],
                             [name |-> "z", offset |-> 8]>>
                 point_step == Len(fields) * 4
                 row_step == point_step * image.width
             IN  [result EXCEPT
                    !.path = "converted", !.fields = fields,
                    !.point_step = point_step, !.row_step = row_step,
                    !.is_dense = TRUE, !.datalen = row_step * image.height]

\* The arguments of one call: an image for a conversion, or an extrinsics
\* vector of some length for the extrinsics step of Run().
ExtrinsicsVectors == [fn : {"extrinsics"}, len : ExtrinsicsLens]

ConvInit ==
    /\ NodeletInit
    /\ conv_in \in Images \cup ExtrinsicsVectors
    /\ conv_out = NoRecord

ConvertImage ==
    /\ conv_in.fn = "image"
    /\ conv_out = NoRecord
    /\ conv_out' = ifm3d_to_ros_image(conv_in)
    /\ UNCHANGED <<runVars, tripleVars, policyVars, handlerVars, mutex,
                   schema_mask_, ok, aborted, frameVars, conv_in>>

ConvertCompressedImage ==
    /\ conv_in.fn = "compressed_image"
    /\ conv_out = NoRecord
    /\ conv_out' = ifm3d_to_ros_compressed_image(conv_in)
    /\ UNCHANGED <<runVars, tripleVars, policyVars, handlerVars, mutex,
                   schema_mask_, ok, aborted, frameVars, conv_in>>

ConvertCloud ==
    /\ conv_in.fn = "cloud"
    /\ conv_out = NoRecord
    /\ conv_out' = ifm3d_to_ros_cloud(conv_in)
    /\ UNCHANGED <<runVars, tripleVars, policyVars, handlerVars, mutex,
                   schema_mask_, ok, aborted, frameVars, conv_in>>

\* extrinsics_msg.header = optical_head; try { tx = extrinsics.at(0); ... }
\* catch (const std::out_of_range&) { warn }  extrinsics_pub_.publish(...)
PublishExtrinsics ==
    /\ conv_in.fn = "extrinsics"
    /\ conv_out = NoRecord
    /\ conv_out' = [path |-> "published", msg |-> ExtrinsicsMsg(conv_in.len)]
    /\ UNCHANGED <<runVars, tripleVars, policyVars, handlerVars, mutex,
                   schema_mask_, ok, aborted, frameVars, conv_in>>

ConvNext ==
    ConvertImage \/ ConvertCompressedImage \/ ConvertCloud \/ PublishExtrinsics

ConvSpec == ConvInit /\ [][ConvNext]_vars

(***************************************************************************)
(* Vocabulary of the properties                                            *)
(***************************************************************************)
AllPresent == cam_ /\ fg_ # NullFg /\ im_
AllAbsent == ~cam_ /\ fg_ = NullFg /\ ~im_

\* InitStructures is between its lock and its return statement.
InInitBody == rpc \in {"init_dtors", "init_cam", "init_fg", "init_im", "init_catch"}

\* Topic ch was published in the current loop iteration.
Published(ch) == \E i \in 1..Len(pubs) : pubs[i] = ch

StreamingChannels == {PubOrder[i] : i \in 1..Len(PubOrder)}
StreamingPublished == \E ch \in StreamingChannels : Published(ch)

\* The device call of handler h is in progress.
InDeviceCall(h) == hpc[h] = "call"

\* The acquisition thread is inside one of the sections that use the
\* session triple: the body of InitStructures, WaitForFrame, the unit-vector
\* conversion, the pull of the sub-images.
RunUsesSession == InInitBody \/ rpc \in {"acq_wait", "uvec_conv", "pull"}

\* The streaming cycle is past the publish statement of channel ch.
PastPublishOf(ch) ==
    \/ rpc = "publish" /\ \E i \in 1..Len(PubOrder) : PubOrder[i] = ch /\ i < stage
    \/ rpc = "loop_test" /\ Published("extrinsics")

(***************************************************************************)
(* C1: after every InitStructures call, whether it succeeded or the device *)
(* library failed at any construction step, the triple (cam_, fg_, im_) is *)
(* all-present if the call returned true and all-absent if it returned     *)
(* false; whenever the mutex is free, so that a handler can take it, the   *)
(* triple is not partially constructed.                                    *)
(***************************************************************************)
C1_TripleAllOrNothing ==
    /\ mutex = Free => (AllPresent \/ AllAbsent)
    /\ ~InInitBody => (IF retval THEN AllPresent ELSE AllAbsent)

\* A recovery attempt has failed after a session existed, and a handler
\* holds the mutex while the acquisition thread sleeps.
C1_Witness ==
    /\ rpc = "recover_sleep"
    /\ AllAbsent
    /\ ~retval
    /\ \E h \in Handlers : hpc[h] = "call"

(***************************************************************************)
(* C2: whenever a command handler holds the lock and makes its call on the *)
(* session handle or frame grabber, a device session is present (cam_ and  *)
(* fg_ are set), also before the first successful initialize and between   *)
(* failed initialize attempts.                                             *)
(***************************************************************************)
C2_SessionPresentAtCall ==
    \A h \in Handlers : InDeviceCall(h) => (cam_ /\ fg_ # NullFg)

(***************************************************************************)
(* C3: a handler's device call never overlaps with the body of             *)
(* InitStructures, with WaitForFrame, with the unit-vector conversion or   *)
(* with the pull of the sub-images, and no two handlers are inside their   *)
(* device call at the same time.                                           *)
(***************************************************************************)
C3_Serialized ==
    /\ \A h \in Handlers : ~(InDeviceCall(h) /\ RunUsesSession)
    /\ \A h1, h2 \in Handlers : (InDeviceCall(h1) /\ InDeviceCall(h2)) => h1 = h2

\* A handler is inside its device call while the acquisition thread waits
\* for the mutex in front of the pull of the sub-images.
C3_Witness ==
    /\ rpc = "pull_lock"
    /\ \E h \in Handlers : InDeviceCall(h) /\ mutex = ByHandler(h)

(***************************************************************************)
(* C4: unit_vectors is published at most once in a run of the loop, and    *)
(* exactly once in a run that reaches a streaming cycle, whatever          *)
(* timeouts, recoveries and failed reinitializations happen; got_uvec,     *)
(* once true, never becomes false again.                                   *)
(***************************************************************************)
C4_UvecOnce ==
    /\ [](uvec_count <= 1)
    /\ [](rpc \in {"pull_lock", "pull", "publish"} => uvec_count = 1)
    /\ [][got_uvec => got_uvec']_vars

\* A recovery has succeeded after the unit vectors were published.
C4_Witness ==
    /\ rpc = "recover_done"
    /\ got_uvec
    /\ uvec_count = 1

(***************************************************************************)
(* C5: when wait_for_frame fails and the time since the last frame exceeds *)
(* the active tolerance, the loop calls InitStructures before the next     *)
(* wait_for_frame, with IMG_UVEC while got_uvec is false and with          *)
(* schema_mask_ once it is true; it retries (sleeping in between) until    *)
(* the call succeeds, then resets last_frame and goes back to the loop     *)
(* head; nothing is published in such an iteration.                        *)
(***************************************************************************)
C5_StaleRecovery ==
    /\ [][(rpc = "stale_check" /\ rpc' # rpc
             /\ since_last_frame > timeout_tolerance_secs_)
          => (/\ rpc' = "init_lock"
              /\ site' = "recover"
              /\ init_mask' = (IF got_uvec THEN schema_mask_ ELSE IMG_UVEC))]_vars
    /\ [][(rpc = "init_ret" /\ site = "recover" /\ rpc' # rpc)
          => rpc' = (IF retval THEN "recover_done" ELSE "recover_sleep")]_vars
    /\ [][(rpc = "recover_sleep" /\ rpc' # rpc)
          => (/\ rpc' = "init_lock"
              /\ site' = "recover"
              /\ init_mask' = (IF got_uvec THEN schema_mask_ ELSE IMG_UVEC))]_vars
    /\ [][(rpc = "recover_done" /\ rpc' # rpc)
          => (since_last_frame' = 0 /\ rpc' = "loop_test")]_vars
    /\ []((site = "recover" \/ rpc \in {"acq_failed", "stale_check", "recover_sleep",
                                       "recover_done"})
          => pubs = <<>>)

\* A recovery after the bootstrap is building the frame grabber with the
\* full schema mask, the session being stale.
C5_Witness ==
    /\ site = "recover"
    /\ rpc = "init_im"
    /\ got_uvec
    /\ fg_ = schema_mask_
    /\ since_last_frame > timeout_tolerance_secs_

(***************************************************************************)
(* C6: unit vectors and streaming data are never published in the same     *)
(* loop iteration, and a streaming channel is published only after the     *)
(* unit vectors were published and an InitStructures with the full schema  *)
(* mask has succeeded.                                                     *)
(***************************************************************************)
C6_UvecThenStreaming ==
    /\ ~(Published("unit_vectors") /\ StreamingPublished)
    /\ StreamingPublished => (uvec_count >= 1 /\ full_schema_ok /\ got_uvec)

\* A streaming cycle has published its last channel.
C6_Witness ==
    /\ Published("confidence")
    /\ Published("extrinsics")
    /\ uvec_count = 1

PublishRank(ch) ==
    CASE ch = "confidence" -> 0
      [] ch \in MaskGated  -> 1
      [] ch = "rgb_image"  -> 2
      [] ch = "extrinsics" -> 3
      [] OTHER             -> 0

C8_PublishOrder ==
    \A i, j \in 1..Len(pubs) :
        (i < j /\ pubs[i] \in StreamingChannels /\ pubs[j] \in StreamingChannels)
        => /\ PublishRank(pubs[i]) <= PublishRank(pubs[j])
           /\ pubs[j] # "confidence"

\* A complete cycle with a gated channel, the RGB image and the extrinsics.
C8_Witness ==
    /\ rpc = "loop_test"
    /\ Published("amplitude")
    /\ Published("rgb_image")
    /\ Published("extrinsics")

(***************************************************************************)
(* C9: no failure of the device library or the frame buffer at a call site *)
(* of the acquisition loop leaves Run() or InitStructures(): each is       *)
(* turned into a false result or a skipped step and the loop keeps         *)
(* running until shutdown.                                                 *)
(***************************************************************************)
C9_NoFailureLeavesRun == rpc # "threw"

(***************************************************************************)
(* C10: the loop polls ros::ok() at the head of every iteration and in     *)
(* every retry loop, so that once shutdown is signalled Run() eventually   *)
(* ends, even if every further InitStructures call fails.                  *)
(***************************************************************************)
C10_ShutdownEndsRun == (~ok) ~> (rpc \in {"done", "threw"} \/ aborted)

\* Handler h has finished its try/catch and is about to return.
Responding(h) == ~aborted /\ hpc[h] = "ret"

\* Handler h serves k and is about to return after outcome o.
RespondingTo(h, k, o) ==
    Responding(h) /\ hkind[h] = k /\ hres[h].outcome = o

\* The messages that describe a failure.
FailureTexts == {What, Text("Unknown error in `Config'")}

(***************************************************************************)
(* C11: every command handler catches every failure of its try block,     *)
(* whatever its kind, and returns true to the transport with a non-zero    *)
(* status and a message describing the failure; no handler reports the     *)
(* service call itself as failed.                                          *)
(***************************************************************************)
C11_FailuresBecomeResponses ==
    \A h \in Handlers :
        (Responding(h) /\ hres[h].outcome # "ok")
        => /\ hres[h].ret = "true"
           /\ hres[h].status # 0
           /\ hres[h].msg \in FailureTexts

(***************************************************************************)
(* C12: Dump and Config answer status 0 on success, the device library's   *)
(* error code on ifm3d::error_t, -1 on any other std::exception and -2 on  *)
(* anything else; they always return true, and no step of theirs changes   *)
(* the session triple.                                                     *)
(***************************************************************************)
C12_DumpConfigStatus ==
    /\ [](\A h \in Handlers :
            (Responding(h) /\ hkind[h] \in {"Dump", "Config"})
            => /\ hres[h].ret = "true"
               /\ hres[h].outcome = "ok" => hres[h].status = 0
               /\ hres[h].outcome = "error_t"
                    => hres[h].status = hres[h].code /\ hres[h].code # 0
               /\ hres[h].outcome = "std_exception" => hres[h].status = -1
               /\ hres[h].outcome = "unknown" => hres[h].status = -2)
    /\ [][\A h \in Handlers :
            (hkind[h] \in {"Dump", "Config"} /\ hpc'[h] # hpc[h])
            => tripleVars' = tripleVars]_vars

\* Config is about to answer -2 after an unknown exception, the triple set.
C12_Witness ==
    \E h \in Handlers :
        /\ RespondingTo(h, "Config", "unknown")
        /\ hres[h].status = -2
        /\ AllPresent

C14_SoftPolicy ==
    /\ \A h \in Handlers : \A k \in {"SoftOff", "SoftOn"} :
          RespondingTo(h, k, "ok")
          => /\ timeout_millis_ = Param_soft_on_timeout_millis
             /\ timeout_tolerance_secs_ = Param_soft_on_timeout_tolerance_secs
             /\ hres[h].msg = hres[h].applied
             /\ hres[h].msg[1] = "json"
             /\ hres[h].msg[3] = (IF k = "SoftOn" THEN "RUN" ELSE "IDLE")
    /\ <<timeout_millis_, timeout_tolerance_secs_>> #
          <<Param_soft_off_timeout_millis, Param_soft_off_timeout_tolerance_secs>>

\* A soft-off has succeeded and is about to answer with the IDLE fragment.
C14_Witness ==
    \E h \in Handlers :
        /\ RespondingTo(h, "SoftOff", "ok")
        /\ cam_
        /\ hres[h].msg = PortStateJson(PortArg, "IDLE")

\* The absolute value of an integer.
Abs(x) == IF x < 0 THEN 0 - x ELSE x

(***************************************************************************)
(* C15: for every successful frame, if the device's capture time differs   *)
(* from the local clock by more than frame_latency_thresh, in either       *)
(* direction, both headers carry the local time; otherwise both carry the  *)
(* device time; the two headers of a cycle always carry the same stamp.    *)
(***************************************************************************)
C15_StampWithinThreshold ==
    head_stamp # NoStamp
    => /\ optical_stamp = head_stamp
       /\ head_stamp = (IF Abs(capture_time) > Param_frame_latency_thresh
                          THEN LocalTime ELSE DeviceTime(capture_time))

\* The acquisition thread is between the unit-vector conversion and the end
\* of the switch to the full schema.
InUvecSwitch == rpc \in {"uvec_conv", "uvec_pub", "full_sleep"} \/ site = "full"

(***************************************************************************)
(* C20 (as stated): on the first successful frame the acquisition thread   *)
(* holds the lock from the unit-vector conversion through the publish, the *)
(* setting of got_uvec and the reinitialize with the full schema and its   *)
(* retries, so that no handler runs in between.                            *)
(***************************************************************************)
C20_LockHeldThroughSwitch ==
    InUvecSwitch
    => /\ mutex = ByRun
       /\ \A h \in Handlers : ~InDeviceCall(h)

(***************************************************************************)
(* C20 (amended): the acquisition thread holds the lock during the         *)
(* unit-vector conversion and during the body of each InitStructures call  *)
(* of the switch, and does not hold it at the unit-vector publish, at the  *)
(* setting of got_uvec, at the entry of InitStructures and during the      *)
(* sleeps between its retries, where a handler can run.                    *)
(***************************************************************************)
C20_LockOnlyAroundConversion ==
    /\ rpc = "uvec_conv" => mutex = ByRun
    /\ (site = "full" /\ InInitBody) => mutex = ByRun
    /\ (rpc \in {"uvec_pub", "full_sleep"} \/ (site = "full" /\ rpc = "init_lock"))
       => mutex # ByRun

\* A handler is inside its device call while the unit vectors, already
\* converted, are not yet published.
C20_Witness ==
    /\ rpc = "uvec_pub"
    /\ ~got_uvec
    /\ \E h \in Handlers : InDeviceCall(h) /\ mutex = ByHandler(h)

\* Conversion fn has returned (or thrown) for a source that is non-empty,
\* or empty.
Converted(fn) == conv_in.fn = fn /\ conv_out # NoRecord
ConvertedNonEmpty(fn) == Converted(fn) /\ ~IsEmpty(conv_in)
ConvertedEmpty(fn) == Converted(fn) /\ IsEmpty(conv_in)

\* The encoding tags and the bytes per pixel the formats stand for; the two
\* formats without a declared encoding carry the default tag.
DocumentedEncoding ==
    <<"8UC1", "8SC1", "16UC1", "16SC1", "8UC1", "32SC1", "32FC1", "8UC1",
      "64FC1", "16UC2", "32FC3">>
BytesPerPixel == <<1, 1, 2, 2, 4, 4, 4, 8, 8, 4, 12>>

(***************************************************************************)
(* C16: for every supported pixel format (8U .. 32F3) and a non-empty      *)
(* source of width W and height H, planar conversion yields the documented *)
(* encoding, stride = W * bytes per pixel and payload length = stride * H; *)
(* for every code out of range it yields an empty payload and an empty     *)
(* encoding.                                                               *)
(***************************************************************************)
C16_PlanarConversion ==
    ConvertedNonEmpty("image")
    => IF conv_in.format <= FORMAT_32F3
         THEN /\ conv_out.path = "converted"
              /\ conv_out.encoding = DocumentedEncoding[conv_in.format + 1]
              /\ conv_out.step = conv_in.width * BytesPerPixel[conv_in.format + 1]
              /\ conv_out.datalen = conv_out.step * conv_in.height
         ELSE /\ conv_out.path = "format_error"
              /\ conv_out.encoding = ""
              /\ conv_out.datalen = 0

(***************************************************************************)
(* C17: for the formats 32U and 64U planar conversion of a non-empty       *)
(* source returns a record whose encoding is the default 8UC1 tag, never   *)
(* an empty tag, and does not throw.                                       *)
(***************************************************************************)
C17_ReservedFormatsFallBack ==
    (ConvertedNonEmpty("image") /\ conv_in.format \in {FORMAT_32U, FORMAT_64U})
    => /\ conv_out.path = "converted"
       /\ conv_out.encoding = "8UC1"

C19_ExtrinsicsAllOrNothing ==
    Converted("extrinsics")
    => /\ conv_out.path = "published"
       /\ conv_in.len < NumExtrinsics
            => \A i \in 1..NumExtrinsics : conv_out.msg[i] = "default"
       /\ conv_in.len >= NumExtrinsics
            => \A i \in 1..NumExtrinsics : conv_out.msg[i] = "read"

(***************************************************************************)
(* C21: the acquisition thread does not hold the lock during any publish   *)
(* of a streaming channel nor during any sleep between InitStructures      *)
(* retries (bootstrap, recovery, switch to the full schema), so a handler  *)
(* can take the lock at each of those points.                              *)
(***************************************************************************)
C21_NoLockWhilePublishingOrSleeping ==
    rpc \in {"publish", "boot_sleep", "recover_sleep", "full_sleep"}
    => mutex # ByRun

\* A handler is inside its device call in the middle of the publishes of a
\* streaming cycle.
C21_Witness ==
    /\ rpc = "publish"
    /\ stage > 1
    /\ \E h \in Handlers : InDeviceCall(h) /\ mutex = ByHandler(h)

(***************************************************************************)
(* C22: a frame record is not retained across cycles: every channel        *)
(* published in a streaming cycle comes from a local that the pull of the  *)
(* same cycle has assigned, also when an accessor raises part-way through  *)
(* the pull; no data of an earlier cycle is published in a later one.      *)
(***************************************************************************)
C22_NoRetainedData ==
    \A ch \in StreamingChannels :
        Published(ch) => (AccessorIndex(ch) <= pulled \/ ~retained)

(***************************************************************************)
(* C23: got_uvec stays false and the session stays on the unit-vector      *)
(* schema until a unit-vector image has been fetched: a frame whose        *)
(* unit-vector image is empty or is rejected by the planar conversion      *)
(* neither sets the latch nor starts the switch to the full schema.        *)
(***************************************************************************)
C23_LatchOnlyAfterFetch ==
    /\ (got_uvec /\ uvec_msg # "none") => uvec_msg = "converted"
    /\ site = "full" => uvec_msg = "converted"

(***************************************************************************)
(* C24: every handler that has been invoked completes: the lock it waits   *)
(* for becomes free again and again, in every state of the acquisition     *)
(* loop, and a handler that has taken the lock finishes its device call    *)
(* and returns.                                                            *)
(***************************************************************************)
C24_HandlersComplete ==
    /\ []<>(mutex = Free)
    /\ \A h \in Handlers : (hpc[h] = "call") ~> (hpc[h] = "idle")

(***************************************************************************)
(* C25: the acquisition thread never calls InitStructures or AcquireFrame  *)
(* while it still holds the mutex through the unique_lock of Run(), and at *)
(* the start of every loop iteration that unique_lock is unlocked.         *)
(***************************************************************************)
C25_NoSelfDeadlock ==
    rpc \in {"init_lock", "acq_lock", "loop_test"} => mutex # ByRun

\* After the unit vectors, a recovery is about to take the mutex in
\* InitStructures while a handler holds it.
C25_Witness ==
    /\ rpc = "init_lock"
    /\ site = "recover"
    /\ got_uvec
    /\ \E h \in Handlers : mutex = ByHandler(h)

\* The acquisition thread is at one of its reads of the timeout policy in
\* Run(): assume_sw_triggered_, timeout_tolerance_secs_.
AtPolicyRead == rpc \in {"acq_failed", "stale_check"}

(***************************************************************************)
(* C26: every access to the active timeout policy is made while holding    *)
(* the lock: the acquisition loop never reads assume_sw_triggered_ or      *)
(* timeout_tolerance_secs_ while a SoftOn or SoftOff handler is in the     *)
(* section that writes them.                                               *)
(***************************************************************************)
C26_PolicyAccessUnderLock ==
    AtPolicyRead
    => /\ mutex = ByRun
       /\ \A h \in Handlers :
            ~(InDeviceCall(h) /\ hkind[h] \in {"SoftOff", "SoftOn"})

=============================================================================
